---- MODULE Spec2Model ----
(***************************************************************************)
(* State-machine model of ics_to_discourse.py: the reconciliation of ICS   *)
(* events against Discourse topics (identity lookup, site-wide duplicate   *)
(* detection, update / create / adopt).                                    *)
(*                                                                         *)
(* Representation of text.  A first-post body ("raw") is the record        *)
(*   [marker, block, start, end, name, loc, reminders, tz, desc, nl]       *)
(* marker : <<>> or the token of an "<!-- ICSUID:... -->" comment          *)
(* block  : the text holds an "[event ...] ... [/event]" block             *)
(* start, end : the "YYYY-MM-DD HH:MM" strings, as a number of hours;      *)
(*          0 is the empty string (attribute absent)                       *)
(* name, loc, reminders, tz : attributes of the opening tag, in the order  *)
(*          make_event_block writes them; loc is the comma-split list of   *)
(*          the location string (<<>> is the empty string)                 *)
(* desc   : the description line of the body ("" when absent)              *)
(* nl     : the text ends with a newline                                   *)
(* Events carry no URL.                                                    *)
(***************************************************************************)
EXTENDS Integers, Sequences, FiniteSets, TLC

VARIABLES
    store,    \* the remote site: sequence of topics, topic id = index
    cfg,      \* args / environment of the invocations
    events,   \* the VEVENTs of the calendar, in feed order
    run,      \* number of the current invocation of main()
    idx,      \* number of events of this run already handed to sync_event
    pc,       \* position inside sync_event for the current event
    cur,      \* locals of sync_event / create_or_adopt_topic
    log,      \* remote calls issued for the current event, in order
    results,  \* per event of this run: what sync_event returned
    previous, \* `results` of the run before
    env,      \* what surrounds the runs: the calendar file and the network
    http,     \* one call of _request_with_backoff: the responses it received
    tokens,   \* UIDs handed to short_uid_tag / build_marker, with the results
    peer,     \* a second invocation of main() on the same site, while it is
              \* not the one taking a step: its events, idx, pc, cur, log, results
    verdict   \* a fetched topic put to the three acceptance tests, with the answers

vars == <<store, cfg, events, run, idx, pc, cur, log, results, previous,
          env, http, tokens, peer, verdict>>

----------------------------------------------------------------------------
(* Bounds of the model *)

MaxEvents == 2      \* VEVENTs in the calendar
MaxRuns   == 2      \* invocations of main(), one after another
PageSize  == 2      \* topics per /latest.json page

----------------------------------------------------------------------------
(* Strings *)

\* str.lower() on the location segments used here
Lower(s) ==
    CASE s = "Room A" -> "room a"
      [] s = "Room B" -> "room b"
      [] OTHER        -> s

\* the summary holds a "]"
HasBracket(name) == name \in {"Talk [A]", "Talk [A reminders=]"}

RECURSIVE Dedup(_)
Dedup(seq) ==
    IF seq = <<>> THEN <<>>
    ELSE LET init == Dedup(SubSeq(seq, 1, Len(seq) - 1))
             last == seq[Len(seq)]
         IN IF \E i \in 1..Len(init) : init[i] = last THEN init
            ELSE Append(init, last)

\* norm(): strip + lower of a time string; the strings are digits
norm(t) == t

\* norm_location(): lowercase, split on commas, drop empty parts, de-dup
norm_location(loc) ==
    Dedup(SelectSeq([i \in 1..Len(loc) |-> Lower(loc[i])], LAMBDA p : p # ""))

\* a in b, for two normalized locations: b holds a as a run of whole parts
InLoc(a, b) ==
    \E i \in 0..(Len(b) - Len(a)) : SubSeq(b, i + 1, i + Len(a)) = a

close_enough_loc(a, b) ==
    IF a = <<>> \/ b = <<>> THEN TRUE
    ELSE a = b \/ InLoc(a, b) \/ InLoc(b, a)

----------------------------------------------------------------------------
(* Identity tokens *)

\* hashlib.sha1(uid).hexdigest(): one digest per distinct byte string
Sha1(uid) ==
    CASE uid = "uid-a"   -> "sha1(uid-a)"
      [] uid = "uid-b"   -> "sha1(uid-b)"
      [] uid = "UID-A"   -> "sha1(UID-A)"
      [] uid = " uid-a " -> "sha1( uid-a )"
      [] OTHER           -> "sha1(?)"

Strip(uid) == IF uid = " uid-a " THEN "uid-a" ELSE uid

LowerUid(uid) == IF uid = "UID-A" THEN "uid-a" ELSE uid

short_uid_tag(uid) == <<"ics-", Sha1(uid)>>

build_marker(uid) == <<"ICSUID:", Sha1(uid)>>

_uid_tag_variants(uid) ==
    Dedup(<< <<"ics-", Sha1(uid)>>,
             <<"ics-", Sha1(Strip(uid))>>,
             <<"ics-", Sha1(LowerUid(Strip(uid)))>> >>)

PlainTag(name) == <<"", name>>

----------------------------------------------------------------------------
(* Rendering and parsing of the event block *)

SITE_TZ_DEFAULT == "Europe/London"

\* make_event_block: the "[event ...] ... [/event]" text of a VEVENT.
\* Floating times render unchanged in the site timezone (to_local_iso).
make_event_block(ev, site_tz) ==
    [marker |-> <<>>, block |-> TRUE, start |-> ev.start, end |-> ev.end,
     name |-> ev.summary, loc |-> ev.location, reminders |-> TRUE,
     tz |-> site_tz, desc |-> ev.description, nl |-> FALSE]

\* fresh_raw = marker_html + "\n" + event_block + "\n"
FreshRaw(ev, site_tz) ==
    [make_event_block(ev, site_tz) EXCEPT !.marker = build_marker(ev.uid),
                                          !.nl = TRUE]

\* parse_event_attrs: EVENT_TAG_RE takes the text up to the first "]", so a
\* "]" inside name="..." ends the tag there: name (unterminated quote) and
\* everything written after it (location, reminders, timezone) is not found.
parse_event_attrs(raw) ==
    IF ~raw.block THEN
        [ok |-> FALSE, start |-> 0, end |-> 0, location |-> <<>>, timezone |-> ""]
    ELSE IF HasBracket(raw.name) THEN
        [ok |-> TRUE, start |-> raw.start, end |-> raw.end,
         location |-> <<>>, timezone |-> ""]
    ELSE
        [ok |-> TRUE, start |-> raw.start, end |-> raw.end,
         location |-> raw.loc, timezone |-> raw.tz]

\* the (start, end, location) triple the verification compares
Triple(attrs) ==
    <<norm(attrs.start), norm(attrs.end), norm_location(attrs.location)>>

\* (variant) the marker comment stays
strip_marker_Keeps(raw) == raw

\* strip_marker: removes any "<!-- ICSUID:<16 hex> -->" comment
strip_marker(raw) == [raw EXCEPT !.marker = <<>>]

\* str.strip(): surrounding whitespace
StripWs(raw) == [raw EXCEPT !.nl = FALSE]

\* sync_event line 724: old_clean.strip() != fresh_clean.strip()
BodyChanged(old_raw, fresh_raw) ==
    StripWs(strip_marker(old_raw)) # StripWs(strip_marker(fresh_raw))

\* sync_event lines 728-738
Meaningful(old_raw, fresh_raw) ==
    LET old_attrs == parse_event_attrs(strip_marker(old_raw))
        new_attrs == parse_event_attrs(strip_marker(fresh_raw))
    IN \/ norm(old_attrs.start) # norm(new_attrs.start)
       \/ norm(old_attrs.end) # norm(new_attrs.end)
       \/ norm_location(old_attrs.location) # norm_location(new_attrs.location)

\* update_first_post_raw lines 218-229: text sent for the first post.  With no
\* "reminders=" anywhere in the text, one is written before the first "]".
InjectReminders(new_raw) ==
    IF new_raw.block /\ ~new_raw.reminders THEN
        IF HasBracket(new_raw.name)
        THEN [new_raw EXCEPT !.name = "Talk [A reminders=]", !.reminders = TRUE]
        ELSE [new_raw EXCEPT !.reminders = TRUE]
    ELSE new_raw

----------------------------------------------------------------------------
(* Legacy time encoding *)

\* _site_offset_minutes, in hours, for the (winter) dates of the model
_site_offset_minutes(site_tz) ==
    CASE site_tz = "Europe/Paris" -> 1
      [] OTHER                    -> 0

\* _shift_by_offset: 0 is None
_shift_by_offset(t, site_tz) ==
    IF t = 0 THEN 0
    ELSE IF _site_offset_minutes(site_tz) = 0 THEN 0
    ELSE t + _site_offset_minutes(site_tz)

\* create_or_adopt_topic lines 585-603
CandidateTriples(raw) ==
    LET new_attrs    == parse_event_attrs(raw)
        site_tz      == IF new_attrs.timezone # "" THEN new_attrs.timezone
                        ELSE SITE_TZ_DEFAULT
        start_now    == norm(new_attrs.start)
        end_now      == norm(new_attrs.end)
        loc_now      == norm_location(new_attrs.location)
        start_legacy == _shift_by_offset(new_attrs.start, site_tz)
        end_legacy   == _shift_by_offset(new_attrs.end, site_tz)
    IN {<<start_now, end_now, loc_now>>}
       \cup (IF start_legacy # 0
             THEN {<<norm(start_legacy), end_now, loc_now>>} ELSE {})
       \cup (IF end_legacy # 0
             THEN {<<start_now, norm(end_legacy), loc_now>>} ELSE {})
       \cup (IF start_legacy # 0 /\ end_legacy # 0
             THEN {<<norm(start_legacy), norm(end_legacy), loc_now>>} ELSE {})

LocNow(raw) == norm_location(parse_event_attrs(raw).location)

----------------------------------------------------------------------------
(* Verification of a candidate topic *)

\* first_post_id_and_raw / posts[0].get("raw"): "" without posts
EmptyRaw ==
    [marker |-> <<>>, block |-> FALSE, start |-> 0, end |-> 0, name |-> "",
     loc |-> <<>>, reminders |-> FALSE, tz |-> "", desc |-> "", nl |-> FALSE]

FirstRaw(topic) == IF topic.has_post THEN topic.raw ELSE EmptyRaw

Pairs(candidate_triples) == {<<t[1], t[2]>> : t \in candidate_triples}

\* _verify_event_hit
_verify_event_hit(topic, candidate_triples, loc_now, time_only) ==
    IF ~topic.has_post THEN FALSE
    ELSE LET attrs == parse_event_attrs(topic.raw)
             trip  == Triple(attrs)
         IN IF ~attrs.ok THEN FALSE
            ELSE IF time_only
                 THEN <<trip[1], trip[2]>> \in Pairs(candidate_triples)
                      /\ close_enough_loc(trip[3], loc_now)
                 ELSE trip \in candidate_triples

\* verify_candidate_ids_by_event: the test applied to one candidate
verify_candidate(topic, candidate_triples, loc_now, time_only) ==
    IF ~topic.has_post THEN FALSE
    ELSE LET attrs == parse_event_attrs(topic.raw)
             trip  == Triple(attrs)
         IN IF ~attrs.ok THEN FALSE
            ELSE IF time_only
                 THEN <<trip[1], trip[2]>> \in Pairs(candidate_triples)
                      /\ close_enough_loc(trip[3], loc_now)
                 ELSE trip \in candidate_triples

\* (variant) the scan takes no notice of time_only
scan_accept_ExactOnly(topic, candidate_triples, loc_now, time_only) ==
    IF ~topic.has_post THEN FALSE
    ELSE LET attrs == parse_event_attrs(topic.raw)
         IN attrs.ok /\ Triple(attrs) \in candidate_triples

\* create_or_adopt_topic lines 646-669: the test of the /latest.json scan
scan_accept(topic, candidate_triples, loc_now, time_only) ==
    IF ~topic.has_post THEN FALSE
    ELSE LET attrs == parse_event_attrs(topic.raw)
             trip  == Triple(attrs)
         IN IF ~attrs.ok THEN FALSE
            ELSE \/ /\ time_only
                    /\ <<trip[1], trip[2]>> \in Pairs(candidate_triples)
                    /\ close_enough_loc(trip[3], loc_now)
                 \/ trip \in candidate_triples

----------------------------------------------------------------------------
(* The remote site: /search.json, /latest.json, /t/{id}.json *)

Ids(S) == 1..Len(S)

\* q = tag:<tag>
TagHits(S, tag) == {i \in Ids(S) : tag \in S[i].tags}

\* (variant) the marker search finds nothing
MarkerHits_None(S, marker_token) == {}

\* q = "<marker token>": topics whose first post holds the token
MarkerHits(S, marker_token) ==
    {i \in Ids(S) : S[i].has_post /\ S[i].raw.marker = marker_token}

\* the text holds the time string t
ContainsTime(raw, t) == raw.block /\ (raw.start = t \/ raw.end = t)

\* search_by_timewindow_then_verify lines 326-331: q = "start_now" "end_now"
TimeHits(S, start_now, end_now) ==
    {i \in Ids(S) :
        /\ S[i].has_post
        /\ start_now # 0 => ContainsTime(S[i].raw, start_now)
        /\ end_now # 0 => ContainsTime(S[i].raw, end_now)}

\* len(title.strip()) >= 6
LongTitle(title) == title \in {"Lecture", "Talk [A]"}

\* build_description_queries: the quoted phrases, in order.  A phrase is
\* <<kind, text>>: the title; the rest of the opening tag after the first "]"
\* (a body line for _extract_searchable_lines when the name holds a "]");
\* the "**Location:** ..." line; the description line.
build_description_queries(raw, title) ==
    (IF LongTitle(title) THEN << <<"title", <<title>> >> >> ELSE <<>>)
    \o (IF HasBracket(raw.name)
        THEN << <<"tail", <<raw.name, raw.tz>> >> >> ELSE <<>>)
    \o (IF raw.loc # <<>> THEN << <<"location", raw.loc>> >> ELSE <<>>)
    \o (IF raw.desc # "" THEN << <<"description", <<raw.desc>> >> >> ELSE <<>>)

\* the topic is a hit of the quoted phrase
PhraseHit(topic, phrase) ==
    CASE phrase[1] = "title" ->
            \/ topic.title = phrase[2][1]
            \/ topic.has_post /\ topic.raw.block /\ topic.raw.name = phrase[2][1]
      [] phrase[1] = "tail" ->
            /\ topic.has_post /\ topic.raw.block /\ topic.raw.reminders
            /\ topic.raw.name = phrase[2][1] /\ topic.raw.tz = phrase[2][2]
      [] phrase[1] = "location" ->
            topic.has_post /\ topic.raw.block /\ topic.raw.loc = phrase[2]
      [] OTHER ->
            topic.has_post /\ topic.raw.desc = phrase[2][1]

\* search_candidate_topic_ids_by_description: the queries run, in order: the
\* first three phrases together (with two phrases or more), then each alone
DescQueries(phrases) ==
    (IF Len(phrases) >= 2
     THEN << {phrases[i] : i \in 1..(IF Len(phrases) < 3 THEN Len(phrases) ELSE 3)} >>
     ELSE <<>>)
    \o [i \in 1..Len(phrases) |-> {phrases[i]}]

QueryHits(S, query) ==
    {i \in Ids(S) : \A ph \in query : PhraseHit(S[i], ph)}

\* /latest.json?page=p: newest topic first
LatestPage(S, page) ==
    {i \in Ids(S) : (Len(S) - i) \div PageSize = page}

----------------------------------------------------------------------------
(* Inputs *)

MaxEdits == 1   \* fields in which an event of the feed differs from BaseEvent
MaxTokens == 4  \* UIDs handed to the token functions in one behaviour

BaseEvent ==
    [uid |-> "uid-a", start |-> 1, end |-> 3, summary |-> "Lecture",
     location |-> <<"Room A">>, description |-> "Intro"]

Uids == {"uid-a", "uid-b"}

AllEvents ==
    [uid : Uids, start : {1, 2}, end : {0, 3},
     summary : {"Lecture", "Talk [A]"},
     location : {<<>>, <<"Room A">>, <<"room a", "Room A">>, <<"Room A", "Room B">>},
     description : {"Intro", "Bring laptop"}]

Edits(e) ==
    (IF <<e.start, e.end>> # <<BaseEvent.start, BaseEvent.end>> THEN 1 ELSE 0)
    + (IF e.summary # BaseEvent.summary THEN 1 ELSE 0)
    + (IF e.location # BaseEvent.location THEN 1 ELSE 0)
    + (IF e.description # BaseEvent.description THEN 1 ELSE 0)

Events == {e \in AllEvents : Edits(e) <= MaxEdits}

\* a topic left by an earlier version of the script for BaseEvent, later
\* retitled and tagged by a moderator; `edited`: its name, location spelling
\* and description were rewritten by hand as well
OldTopic(marker, reminders, shift, tags, edited) ==
    [title |-> "Week 1 seminar", category |-> 3,
     tags |-> {PlainTag("staff-pick")} \cup tags, has_post |-> TRUE,
     raw |-> [make_event_block(BaseEvent, "Europe/Paris") EXCEPT
                 !.marker = marker, !.reminders = reminders,
                 !.start = BaseEvent.start + shift,
                 !.end = BaseEvent.end + shift,
                 !.name = IF edited THEN "Seminar" ELSE @,
                 !.loc = IF edited THEN <<"room a">> ELSE @,
                 !.desc = IF edited THEN "" ELSE @]]

\* a hand-written topic with no event block
PlainTopic ==
    [title |-> "Welcome", category |-> 3, tags |-> {PlainTag("staff-pick")},
     has_post |-> TRUE, raw |-> [EmptyRaw EXCEPT !.desc = "Intro"]]

\* a topic whose post stream is empty
EmptyTopic ==
    [title |-> "Week 1 seminar", category |-> 3,
     tags |-> {short_uid_tag("uid-a")}, has_post |-> FALSE, raw |-> EmptyRaw]

\* a topic an earlier run created for "Talk [A]" while it was held in
\* Room B
MovedTalk ==
    [title |-> "Talk [A]", category |-> 5, tags |-> {PlainTag("calendar")},
     has_post |-> TRUE,
     raw |-> FreshRaw([BaseEvent EXCEPT !.summary = "Talk [A]",
                                        !.location = <<"Room B">>],
                      "Europe/Paris")]

OldIdentity ==
    {[marker |-> <<>>, tags |-> {}],
     [marker |-> build_marker("uid-a"), tags |-> {}],
     [marker |-> <<>>, tags |-> {short_uid_tag("uid-a"), PlainTag("calendar")}]}

InitialStores ==
    {<<>>, <<PlainTopic>>, <<EmptyTopic>>, <<MovedTalk>>}
    \cup {<<OldTopic(id.marker, r, sh, id.tags, FALSE)>> :
            id \in OldIdentity, r \in BOOLEAN, sh \in {0, 1}}
    \cup {<<OldTopic(<<>>, r, sh, {}, TRUE)>> : r \in BOOLEAN, sh \in {0, 1}}

DefaultConfig ==
    [site_tz |-> "Europe/Paris", static_tags |-> {},
     DEFAULT_TAGS |-> {PlainTag("calendar")},
     category_id |-> 5, ENV_CAT_ID |-> 0, scan_pages |-> 1,
     time_only_dedupe |-> FALSE]

Configs ==
    {DefaultConfig,
     [DefaultConfig EXCEPT !.site_tz = "UTC"],
     [DefaultConfig EXCEPT !.static_tags = {PlainTag("events")}],
     [DefaultConfig EXCEPT !.category_id = 0],
     [DefaultConfig EXCEPT !.category_id = 0, !.ENV_CAT_ID = 7],
     [DefaultConfig EXCEPT !.scan_pages = 0],
     [DefaultConfig EXCEPT !.time_only_dedupe = TRUE]}

----------------------------------------------------------------------------
(* State *)

\* no remote call fails
NoFault == [op |-> "", pc |-> "", idx |-> 0, run |-> 0]

\* _request_with_backoff not entered
NoCall == [sent |-> <<>>, outcome |-> "none"]

NoCur ==
    [ev |-> BaseEvent, fresh_raw |-> EmptyRaw, topic_id |-> 0, stage |-> "",
     existing_tags |-> {}, old_raw |-> EmptyRaw, post_id |-> 0,
     api_error |-> FALSE]

\* no topic has been put to the acceptance tests
NoVerdict == [asked |-> FALSE]

\* main() of an invocation that has not handed an event to sync_event yet
NotStarted ==
    [events |-> <<>>, idx |-> 0, pc |-> "idle", cur |-> NoCur, log |-> <<>>,
     results |-> <<>>]

Init ==
    /\ store \in InitialStores
    /\ cfg \in Configs
    /\ events = <<>>
    /\ run = 1
    /\ idx = 0
    /\ pc = "idle"
    /\ cur = NoCur
    /\ log = <<>>
    /\ results = <<>>
    /\ previous = <<>>
    /\ env = [ics |-> Events, stable |-> TRUE, fault |-> NoFault]
    /\ http = NoCall
    /\ tokens = <<>>
    /\ peer = NotStarted
    /\ verdict = NoVerdict

\* _norm_tags(DEFAULT_TAGS) + _norm_tags(args.static_tags)
ConfiguredTags == cfg.DEFAULT_TAGS \cup cfg.static_tags

\* (variant) a category is made up when none is configured
ResolvedCategory_Fallback ==
    IF cfg.category_id # 0 THEN cfg.category_id
    ELSE IF cfg.ENV_CAT_ID # 0 THEN cfg.ENV_CAT_ID ELSE 1

\* args.category_id or ENV_CAT_ID (0 is the empty string)
ResolvedCategory ==
    IF cfg.category_id # 0 THEN cfg.category_id ELSE cfg.ENV_CAT_ID

\* sync_event returns to main(): the next VEVENT follows
Return(topic_id, was_created, outcome) ==
    /\ results' = Append(results, [topic_id |-> topic_id,
                                   was_created |-> was_created,
                                   outcome |-> outcome,
                                   stage |-> cur.stage])
    /\ pc' = "idle"
    /\ cur' = NoCur

\* the call `op` made at position `stage` for event number k of this run
\* raises: _request_with_backoff gave up, or the answer was a 4xx
FailsAt(op, stage, k) ==
    env.fault = [op |-> op, pc |-> stage, idx |-> k, run |-> run]

Fails(op) == FailsAt(op, pc, idx)

\* the log entry of a call that raised
Failed(entry) ==
    [f \in DOMAIN entry \cup {"failed"} |->
        IF f = "failed" THEN TRUE ELSE entry[f]]

\* (variant) the exception is caught inside sync_event, which returns the
\* topic id it has
Raise_Swallowed == Return(cur.topic_id, FALSE, "updated")

\* (variant) the call that raised is made again, without end
Raise_RetryForever == UNCHANGED <<pc, cur, results>>

\* (variant) the exception is not caught and ends main()
Raise_Uncaught ==
    /\ pc' = "aborted"
    /\ cur' = NoCur
    /\ UNCHANGED results

\* main() lines 841-847: the exception leaves sync_event and is caught and
\* logged by the loop over the VEVENTs
Raise == Return(0, FALSE, "failed")

----------------------------------------------------------------------------
(* sync_event, stage 1: identity lookup *)

\* (variant) no marker search after the tag searches
search_topic_by_uid_tag_NoMarker(S, uid, marker_token) ==
    LET vs    == _uid_tag_variants(uid)
        hit   == {k \in 1..Len(vs) : TagHits(S, vs[k]) # {}}
        first == IF hit = {} THEN 0
                 ELSE CHOOSE k \in hit : \A j \in hit : k <= j
        tagq(n) == [i \in 1..n |-> [op |-> "search", kind |-> "tag"]]
    IN IF first # 0
       THEN {[topic_id |-> t, calls |-> tagq(first)] : t \in TagHits(S, vs[first])}
       ELSE {[topic_id |-> 0, calls |-> tagq(Len(vs))]}

\* search_topic_by_uid_tag_then_marker: the possible (topic id, searches
\* issued); topics[0] is any of the hits
search_topic_by_uid_tag_then_marker(S, uid, marker_token) ==
    LET vs    == _uid_tag_variants(uid)
        hit   == {k \in 1..Len(vs) : TagHits(S, vs[k]) # {}}
        first == IF hit = {} THEN 0
                 ELSE CHOOSE k \in hit : \A j \in hit : k <= j
        tagq(n) == [i \in 1..n |-> [op |-> "search", kind |-> "tag"]]
        markq == <<[op |-> "search", kind |-> "marker"]>>
    IN IF first # 0
       THEN {[topic_id |-> t, calls |-> tagq(first)] : t \in TagHits(S, vs[first])}
       ELSE IF MarkerHits(S, marker_token) = {}
            THEN {[topic_id |-> 0, calls |-> tagq(Len(vs)) \o markq]}
            ELSE {[topic_id |-> t, calls |-> tagq(Len(vs)) \o markq] :
                    t \in MarkerHits(S, marker_token)}

\* sync_event lines 702-716, for the event ev; a search that raises ends
\* the event
Lookup(ev) ==
    /\ idx' = idx + 1
    /\ IF FailsAt("search", "idle", idx + 1) THEN
           /\ log' = <<Failed([op |-> "search", kind |-> "tag"])>>
           /\ Raise
       ELSE
           \E r \in search_topic_by_uid_tag_then_marker(store, ev.uid,
                                                       build_marker(ev.uid)) :
               /\ cur' = [NoCur EXCEPT !.ev = ev,
                                       !.fresh_raw = FreshRaw(ev, cfg.site_tz),
                                       !.topic_id = r.topic_id]
               /\ log' = r.calls
               /\ pc' = IF r.topic_id # 0 THEN "update" ELSE "create_or_adopt"
               /\ UNCHANGED results

\* main(): the next VEVENT of the first run's calendar walk
SyncNewEvent ==
    /\ pc = "idle" /\ run = 1 /\ idx = Len(events) /\ idx < MaxEvents
    /\ \E ev \in env.ics :
          /\ events' = Append(events, ev)
          /\ Lookup(ev)
    /\ UNCHANGED <<store, cfg, run, previous, env, http, tokens, peer, verdict>>

\* main(): the next VEVENT of a later run; the calendar file is the same
\* (env.stable) or was edited in between
SyncSameEvent ==
    /\ pc = "idle" /\ run > 1 /\ run <= MaxRuns /\ idx < Len(events)
    /\ \E ev \in (IF env.stable THEN {events[idx + 1]} ELSE env.ics) :
          /\ events' = [events EXCEPT ![idx + 1] = ev]
          /\ Lookup(ev)
    /\ UNCHANGED <<store, cfg, run, previous, env, http, tokens, peer, verdict>>

\* main() ends (line 849); the script is invoked again later
NextRun ==
    /\ pc = "idle" /\ run < MaxRuns /\ idx = Len(events) /\ idx > 0
    /\ run' = run + 1
    /\ idx' = 0
    /\ previous' = results
    /\ results' = <<>>
    /\ log' = <<>>
    /\ UNCHANGED <<store, cfg, events, pc, cur, env, http, tokens, peer, verdict>>

----------------------------------------------------------------------------
(* sync_event, UPDATE path *)

\* PUT /posts/{post_id}.json as update_first_post_raw sends it
PutPost(path, post_id, new_raw, bypass_bump, old_raw) ==
    [op |-> "put_post", path |-> path, post_id |-> post_id,
     raw |-> InjectReminders(new_raw), bypass_bump |-> bypass_bump,
     old_raw |-> old_raw]

\* PUT /t/{topic_id}.json as update_topic_tags sends it
PutTags(path, topic_id, merged_tags, existing_tags) ==
    [op |-> "put_tags", path |-> path, topic_id |-> topic_id,
     tags |-> merged_tags, existing_tags |-> existing_tags]

GetTopic(topic_id) == [op |-> "get", topic_id |-> topic_id]

\* (variant) the new text is held back until the tags are written
put_first_post_Deferred(S, post_id, new_raw) == S

\* the site after PUT /posts/{post_id}.json with post[raw]: the first post of
\* the topic holds the text sent (the id of a first post is its topic's)
put_first_post(S, post_id, new_raw) == [S EXCEPT ![post_id].raw = new_raw]

\* (variant) the PUT also carries the configured category
update_topic_tags_WithCategory(S, topic_id, merged_tags) ==
    [S EXCEPT ![topic_id].tags = merged_tags,
              ![topic_id].category = IF cfg.category_id # 0 THEN cfg.category_id
                                     ELSE cfg.ENV_CAT_ID]

\* update_topic_tags: the site after PUT /t/{topic_id}.json with tags[] only
update_topic_tags(S, topic_id, merged_tags) == [S EXCEPT ![topic_id].tags = merged_tags]

\* (variant) the site keeps one topic per identity marker: a POST whose text
\* carries the marker of a topic it holds adds nothing
post_new_topic_Once(S, title, raw, category_id, tags) ==
    IF \E t \in DOMAIN S : S[t].has_post /\ S[t].raw.marker = raw.marker
    THEN S
    ELSE Append(S, [title |-> title, category |-> category_id, tags |-> tags,
                    has_post |-> TRUE, raw |-> raw])

\* the site after POST /posts.json with title, raw, category, tags[]
post_new_topic(S, title, raw, category_id, tags) ==
    Append(S, [title |-> title, category |-> category_id, tags |-> tags,
               has_post |-> TRUE, raw |-> raw])

\* (variant) line 755 in force: desired_tags.add(uid_tag)
DesiredTags_WithUidTag(existing_tags) ==
    existing_tags \cup ConfiguredTags \cup {short_uid_tag(cur.ev.uid)}

\* (variant) the static tags are left out of the merge
DesiredTags_DefaultOnly(existing_tags) == existing_tags \cup cfg.DEFAULT_TAGS

\* (variant) the merge starts from the configured tags alone
DesiredTags_ConfiguredOnly(existing_tags) == ConfiguredTags

\* sync_event lines 751-754 and 796-799
DesiredTags(existing_tags) == existing_tags \cup ConfiguredTags

\* sync_event lines 718-748: read the topic, rewrite the first post when the
\* body without marker changed.  A topic without posts has post_id None: the
\* PUT to /posts/None.json is refused and the error leaves sync_event.
UpdateFirstPost ==
    /\ pc = "update"
    /\ LET topic   == store[cur.topic_id]
           post_id == IF topic.has_post THEN cur.topic_id ELSE 0
           old_raw == FirstRaw(topic)
           put     == PutPost("update", post_id, cur.fresh_raw,
                              ~Meaningful(old_raw, cur.fresh_raw), old_raw)
       IN IF Fails("get") THEN
              /\ log' = Append(log, Failed(GetTopic(cur.topic_id)))
              /\ Raise
              /\ UNCHANGED store
          ELSE IF BodyChanged(old_raw, cur.fresh_raw) THEN
              IF post_id = 0 \/ Fails("put_post") THEN
                  /\ log' = log \o <<GetTopic(cur.topic_id), Failed(put)>>
                  /\ Raise
                  /\ UNCHANGED store
              ELSE
                  /\ log' = log \o <<GetTopic(cur.topic_id), put>>
                  /\ store' = put_first_post(store, post_id, put.raw)
                  /\ cur' = [cur EXCEPT !.existing_tags = topic.tags,
                                        !.old_raw = old_raw, !.post_id = post_id]
                  /\ pc' = "update_tags"
                  /\ UNCHANGED results
          ELSE
              /\ log' = Append(log, GetTopic(cur.topic_id))
              /\ cur' = [cur EXCEPT !.existing_tags = topic.tags,
                                    !.old_raw = old_raw, !.post_id = post_id]
              /\ pc' = "update_tags"
              /\ UNCHANGED <<store, results>>
    /\ UNCHANGED <<cfg, events, run, idx, previous, env, http, tokens, peer, verdict>>

\* sync_event lines 750-765
UpdateTags ==
    /\ pc = "update_tags"
    /\ LET desired_tags == DesiredTags(cur.existing_tags)
           put == PutTags("update", cur.topic_id, desired_tags, cur.existing_tags)
       IN IF cur.existing_tags # desired_tags THEN
              IF Fails("put_tags") THEN
                  /\ log' = Append(log, Failed(put))
                  /\ Raise
                  /\ UNCHANGED store
              ELSE
                  /\ log' = Append(log, put)
                  /\ store' = update_topic_tags(store, cur.topic_id, desired_tags)
                  /\ Return(cur.topic_id, FALSE, "updated")
          ELSE
              /\ UNCHANGED <<log, store>>
              /\ Return(cur.topic_id, FALSE, "updated")
    /\ UNCHANGED <<cfg, events, run, idx, previous, env, http, tokens, peer, verdict>>

----------------------------------------------------------------------------
(* sync_event, CREATE or ADOPT path *)

\* sync_event lines 768-771
CheckCategory ==
    /\ pc = "create_or_adopt"
    /\ IF ResolvedCategory = 0
       THEN Return(0, FALSE, "skipped")
       ELSE /\ pc' = "timewindow"
            /\ UNCHANGED <<cur, results>>
    /\ UNCHANGED <<store, cfg, events, run, idx, log, previous, env, http, tokens, peer, verdict>>

\* (variant) no hit of the time-window search passes
Verified_None(S, hits, raw, time_only) == {}

\* the topics of `hits` that pass the verification
Verified(S, hits, raw, time_only) ==
    {i \in hits : _verify_event_hit(S[i], CandidateTriples(raw), LocNow(raw), time_only)}

\* create_or_adopt_topic lines 609-620 with search_by_timewindow_then_verify:
\* an exception of the search or of a verification fetch is caught there and
\* reported as api_error, with no topic id
TimeWindowSearch ==
    /\ pc = "timewindow"
    /\ LET new_attrs == parse_event_attrs(cur.fresh_raw)
           hits == TimeHits(store, norm(new_attrs.start), norm(new_attrs.end))
           ok   == Verified(store, hits, cur.fresh_raw, cfg.time_only_dedupe)
           q    == [op |-> "search", kind |-> "timewindow"]
       IN IF Fails("search") THEN
              /\ log' = Append(log, Failed(q))
              /\ cur' = [cur EXCEPT !.api_error = TRUE]
              /\ pc' = "description"
          ELSE IF Fails("get") /\ hits # {} THEN
              \E tid \in hits :
                  /\ log' = log \o <<q, Failed(GetTopic(tid))>>
                  /\ cur' = [cur EXCEPT !.api_error = TRUE]
                  /\ pc' = "description"
          ELSE IF ok # {} THEN
              \E tid \in ok :
                  /\ cur' = [cur EXCEPT !.topic_id = tid, !.stage = "timewindow"]
                  /\ log' = log \o <<q, GetTopic(tid)>>
                  /\ pc' = "adopt"
          ELSE
              /\ log' = Append(log, q)
              /\ pc' = "description"
              /\ UNCHANGED cur
    /\ UNCHANGED <<store, cfg, events, run, idx, results, previous, env, http, tokens, peer, verdict>>

\* verify_candidate_ids_by_event over the ids the queries collected
VerifiedCandidates(S, hits, raw, time_only) ==
    {i \in hits : verify_candidate(S[i], CandidateTriples(raw), LocNow(raw), time_only)}

\* create_or_adopt_topic lines 623-635: every query runs; the first verified
\* id in collection order is a verified hit of the first query that has one.
\* A query that raises is given up (run_query, lines 515-518) and yields no
\* id; a verification fetch that raises is not caught.
DescriptionSearch ==
    /\ pc = "description"
    /\ LET phrases == build_description_queries(cur.fresh_raw, cur.ev.summary)
           queries == DescQueries(phrases)
           ok(k)   == VerifiedCandidates(store, QueryHits(store, queries[k]),
                                         cur.fresh_raw, cfg.time_only_dedupe)
           good    == {k \in 1..Len(queries) : ok(k) # {}}
           calls   == [k \in 1..Len(queries) |-> [op |-> "search", kind |-> "description"]]
           cand_ids == UNION {QueryHits(store, queries[k]) : k \in 1..Len(queries)}
       IN IF Fails("search") THEN
              /\ log' = log \o [k \in 1..Len(queries) |-> Failed(calls[k])]
              /\ pc' = "latest"
              /\ UNCHANGED <<cur, results>>
          ELSE IF Fails("get") /\ cand_ids # {} THEN
              \E tid \in cand_ids :
                  /\ log' = log \o calls \o <<Failed(GetTopic(tid))>>
                  /\ Raise
          ELSE IF good # {} THEN
              \E tid \in ok(CHOOSE k \in good : \A j \in good : k <= j) :
                  /\ cur' = [cur EXCEPT !.topic_id = tid, !.stage = "description"]
                  /\ log' = log \o calls \o <<GetTopic(tid)>>
                  /\ pc' = "adopt"
                  /\ UNCHANGED results
          ELSE
              /\ log' = log \o calls
              /\ pc' = "latest"
              /\ UNCHANGED <<cur, results>>
    /\ UNCHANGED <<store, cfg, events, run, idx, previous, env, http, tokens, peer, verdict>>

\* (variant) the scan is made only after the time-window search reported
\* an API error
PagesScanned_OnApiError ==
    IF cur.api_error /\ cfg.scan_pages > 0 THEN cfg.scan_pages ELSE 0

\* (variant) max(1, pages_to_scan) pages are asked without the test of
\* line 638
PagesScanned_AtLeastOne == IF cfg.scan_pages > 1 THEN cfg.scan_pages ELSE 1

\* create_or_adopt_topic lines 637-639: the scan is made when pages_to_scan
\* is positive; api_error is not looked at
PagesScanned == IF cfg.scan_pages > 0 THEN cfg.scan_pages ELSE 0

\* create_or_adopt_topic lines 637-671: pages 0 .. max(1, pages_to_scan) - 1,
\* until an empty page; within a page the first topic that passes.  No
\* exception is caught here.
ScanLatest ==
    /\ pc = "latest"
    /\ LET n == PagesScanned
           asked == {p \in 0..(n - 1) : \A q \in 0..(p - 1) : LatestPage(store, q) # {}}
           pass(p) == {i \in LatestPage(store, p) :
                          scan_accept(store[i], CandidateTriples(cur.fresh_raw),
                                      LocNow(cur.fresh_raw), cfg.time_only_dedupe)}
           good == {p \in asked : pass(p) # {}}
           listing(m) == [k \in 1..m |-> [op |-> "latest", page |-> k - 1]]
           newest == CHOOSE i \in Ids(store) : \A j \in Ids(store) : i >= j
       IN IF Fails("latest") /\ n > 0 THEN
              /\ log' = Append(log, Failed([op |-> "latest", page |-> 0]))
              /\ Raise
          ELSE IF Fails("get") /\ n > 0 /\ Ids(store) # {} THEN
              /\ log' = log \o listing(1) \o <<Failed(GetTopic(newest))>>
              /\ Raise
          ELSE IF good # {} THEN
              LET p   == CHOOSE x \in good : \A y \in good : x <= y
                  tid == CHOOSE i \in pass(p) : \A j \in pass(p) : i >= j
              IN /\ cur' = [cur EXCEPT !.topic_id = tid, !.stage = "latest"]
                 /\ log' = log \o listing(p + 1) \o <<GetTopic(tid)>>
                 /\ pc' = "adopt"
                 /\ UNCHANGED results
          ELSE
              /\ log' = log \o listing(Cardinality(asked))
              /\ pc' = "create"
              /\ UNCHANGED <<cur, results>>
    /\ UNCHANGED <<store, cfg, events, run, idx, previous, env, http, tokens, peer, verdict>>

\* (variant) the static tags are left out
CreateTags_DefaultOnly == cfg.DEFAULT_TAGS

\* sync_event lines 773-777: sorted(default tags + static tags)
CreateTags == ConfiguredTags

\* create_or_adopt_topic lines 675-690 and sync_event lines 790-792
CreateTopic ==
    /\ pc = "create"
    /\ LET post == [op |-> "create", title |-> cur.ev.summary,
                    raw |-> cur.fresh_raw, category |-> ResolvedCategory,
                    tags |-> CreateTags]
       IN IF Fails("create") THEN
              /\ log' = Append(log, Failed(post))
              /\ Raise
              /\ UNCHANGED store
          ELSE
              /\ store' = post_new_topic(store, cur.ev.summary, cur.fresh_raw,
                                         ResolvedCategory, CreateTags)
              /\ log' = Append(log, post)
              /\ Return(Len(store) + 1, TRUE, "created")
    /\ UNCHANGED <<cfg, events, run, idx, previous, env, http, tokens, peer, verdict>>

\* sync_event lines 794-802: the adopted topic is read, its tags merged
AdoptTags ==
    /\ pc = "adopt"
    /\ LET topic   == store[cur.topic_id]
           desired == DesiredTags(topic.tags)
           put     == PutTags("adopt", cur.topic_id, desired, topic.tags)
           read    == [cur EXCEPT !.existing_tags = topic.tags,
                                  !.old_raw = FirstRaw(topic),
                                  !.post_id = IF topic.has_post THEN cur.topic_id
                                              ELSE 0]
       IN IF Fails("get") THEN
              /\ log' = Append(log, Failed(GetTopic(cur.topic_id)))
              /\ Raise
              /\ UNCHANGED store
          ELSE IF topic.tags # desired /\ Fails("put_tags") THEN
              /\ log' = log \o <<GetTopic(cur.topic_id), Failed(put)>>
              /\ Raise
              /\ UNCHANGED store
          ELSE IF topic.tags # desired THEN
              /\ log' = log \o <<GetTopic(cur.topic_id), put>>
              /\ store' = update_topic_tags(store, cur.topic_id, desired)
              /\ cur' = read
              /\ pc' = "retrofit"
              /\ UNCHANGED results
          ELSE
              /\ log' = Append(log, GetTopic(cur.topic_id))
              /\ cur' = read
              /\ pc' = "retrofit"
              /\ UNCHANGED <<store, results>>
    /\ UNCHANGED <<cfg, events, run, idx, previous, env, http, tokens, peer, verdict>>

\* sync_event lines 804-816: with the marker absent from the first post, the
\* first post is sent again as read (the marker line 807 is commented out)
AdoptRetrofit ==
    /\ pc = "retrofit"
    /\ IF cur.post_id # 0 /\ cur.old_raw.marker # build_marker(cur.ev.uid) THEN
           LET put == PutPost("adopt", cur.post_id, cur.old_raw, TRUE, cur.old_raw)
           IN IF Fails("put_post") THEN
                  /\ log' = Append(log, Failed(put))
                  /\ Raise
                  /\ UNCHANGED store
              ELSE
                  /\ log' = Append(log, put)
                  /\ store' = put_first_post(store, cur.post_id, put.raw)
                  /\ Return(cur.topic_id, FALSE, "adopted")
       ELSE
           /\ UNCHANGED <<log, store>>
           /\ Return(cur.topic_id, FALSE, "adopted")
    /\ UNCHANGED <<cfg, events, run, idx, previous, env, http, tokens, peer, verdict>>

----------------------------------------------------------------------------

Next ==
    \/ SyncNewEvent
    \/ SyncSameEvent
    \/ NextRun
    \/ UpdateFirstPost
    \/ UpdateTags
    \/ CheckCategory
    \/ TimeWindowSearch
    \/ DescriptionSearch
    \/ ScanLatest
    \/ CreateTopic
    \/ AdoptTags
    \/ AdoptRetrofit

Spec == Init /\ [][Next]_vars

----------------------------------------------------------------------------
(* Runs over an unreliable network: one call site raises while one event   *)
(* of one run is synchronised                                              *)

\* the remote calls of sync_event, by kind of call and position
FaultSites ==
    {<<"search", "idle">>, <<"get", "update">>, <<"put_post", "update">>,
     <<"put_tags", "update_tags">>, <<"search", "timewindow">>,
     <<"get", "timewindow">>, <<"search", "description">>,
     <<"get", "description">>, <<"latest", "latest">>, <<"get", "latest">>,
     <<"create", "create">>, <<"get", "adopt">>, <<"put_tags", "adopt">>,
     <<"put_post", "retrofit">>}

Faults ==
    {[op |-> s[1], pc |-> s[2], idx |-> k, run |-> r] :
        s \in FaultSites, k \in 1..MaxEvents, r \in 1..MaxRuns}

FaultEvents ==
    {BaseEvent, [BaseEvent EXCEPT !.description = "Bring laptop"],
     [BaseEvent EXCEPT !.uid = "uid-b"]}

FaultStores ==
    {<<>>,
     <<OldTopic(build_marker("uid-a"), TRUE, 0, {}, FALSE)>>,
     <<OldTopic(<<>>, FALSE, 0, {}, FALSE)>>,
     <<OldTopic(<<>>, TRUE, 1, {}, FALSE)>>,
     <<OldTopic(<<>>, TRUE, 0, {}, TRUE)>>}

FaultConfigs == {DefaultConfig, [DefaultConfig EXCEPT !.scan_pages = 0]}

InitF ==
    /\ store \in FaultStores
    /\ cfg \in FaultConfigs
    /\ events = <<>>
    /\ run = 1
    /\ idx = 0
    /\ pc = "idle"
    /\ cur = NoCur
    /\ log = <<>>
    /\ results = <<>>
    /\ previous = <<>>
    /\ env \in [ics : {FaultEvents}, stable : {TRUE}, fault : Faults \cup {NoFault}]
    /\ http = NoCall
    /\ tokens = <<>>
    /\ peer = NotStarted
    /\ verdict = NoVerdict

SpecF == InitF /\ [][Next]_vars

\* main() is not interrupted: whatever step is possible is taken
FairSpecF == SpecF /\ WF_vars(Next)

----------------------------------------------------------------------------
(* Observations used by the properties *)

\* the calls of the current event that change the site
WriteOps == {"create", "put_post", "put_tags"}

Calls(op) == {i \in DOMAIN log : log[i].op = op}

\* sync_event has returned for event number idx of this run
Returned == pc = "idle" /\ idx > 0 /\ Len(results) = idx

LastResult == results[idx]

\* normalized (start, end, location) of a source event
SourceTriple(ev) == <<ev.start, ev.end, norm_location(ev.location)>>

\* the UID of event k occurs once in the calendar
UniqueUid(k) == \A j \in DOMAIN events : events[j].uid = events[k].uid => j = k

----------------------------------------------------------------------------
(* C1  Idempotence across runs.  After one complete run, a second run over *)
(* the same events with the same configuration issues no createRecord, no  *)
(* updateEntryContent and no updateRecordTags call, for every event whose  *)
(* reconciliation completes and whose UID occurs once in the calendar,      *)
(* adopted events included.                                                *)

C1_SecondRunWritesNothing ==
    (run > 1 /\ Returned /\ LastResult.outcome # "failed" /\ UniqueUid(idx))
        => \A i \in DOMAIN log : log[i].op \notin WriteOps

----------------------------------------------------------------------------
(* C2  No accidental duplication.  In default (non time-only) mode, when   *)
(* two events of one run have the same normalized (start, end, location),  *)
(* different UIDs, no identity match, and the first one was created, the   *)
(* second adopts the record created for the first and creates nothing.     *)

C2_SecondAdoptsFirst ==
    ( /\ run = 1 /\ Returned /\ idx = 2
      /\ ~cfg.time_only_dedupe
      /\ events[1].uid # events[2].uid
      /\ SourceTriple(events[1]) = SourceTriple(events[2])
      /\ results[1].outcome = "created"
      /\ results[2].outcome \notin {"updated", "failed"} )
        => /\ results[2].outcome = "adopted"
           /\ results[2].topic_id = results[1].topic_id
           /\ Calls("create") = {}

----------------------------------------------------------------------------
(* C3  Tag monotonicity.  Every tag write carries a superset of the tags   *)
(* read from that topic in the same event, and no step removes a tag from  *)
(* a topic, manually added tags included.                                  *)

C3_TagsOnlyGrow ==
    [][ /\ \A i \in DOMAIN log' :
              log'[i].op = "put_tags" => log'[i].existing_tags \subseteq log'[i].tags
        /\ \A t \in DOMAIN store : store[t].tags \subseteq store'[t].tags ]_vars

C3_Witness ==
    \E i \in Calls("put_tags") :
        /\ PlainTag("staff-pick") \in log[i].existing_tags
        /\ PlainTag("staff-pick") \in store[log[i].topic_id].tags
        /\ store[log[i].topic_id].tags # log[i].existing_tags

----------------------------------------------------------------------------
(* C4  Immutability of title and category.  No step changes the title or   *)
(* the category of an existing topic, and the writes to an existing topic  *)
(* (first-post text, tags) carry neither field.                            *)

C4_TitleCategoryFrozen ==
    [][ /\ \A t \in DOMAIN store :
              /\ store'[t].title = store[t].title
              /\ store'[t].category = store[t].category
        /\ \A i \in DOMAIN log' :
              log'[i].op \in {"put_post", "put_tags"}
                  => DOMAIN log'[i] \cap {"title", "category"} = {} ]_vars

\* an update wrote text and tags to a topic whose title and category differ
\* from the event's summary and the configured category
C4_Witness ==
    /\ Returned /\ LastResult.outcome = "updated"
    /\ Calls("put_post") # {} /\ Calls("put_tags") # {}
    /\ store[LastResult.topic_id].title # events[idx].summary
    /\ store[LastResult.topic_id].category # ResolvedCategory

----------------------------------------------------------------------------
(* C5  Bump suppression.  On the update path a content write asks for bump *)
(* suppression exactly when the normalized start, end and location parsed  *)
(* from the stored text equal those parsed from the text written; a change *)
(* of the description alone suppresses the bump, and a change of the       *)
(* location does not.                                                      *)

DescriptionOnly(old_raw, new_raw) ==
    /\ old_raw.desc # new_raw.desc
    /\ [old_raw EXCEPT !.desc = new_raw.desc, !.marker = new_raw.marker,
                       !.nl = new_raw.nl] = new_raw

\* the location attribute written in the two texts differs after
\* normalization
LocationChanged(old_raw, new_raw) ==
    /\ old_raw.block /\ new_raw.block
    /\ norm_location(old_raw.loc) # norm_location(new_raw.loc)

C5_BypassIffCosmetic ==
    \A i \in Calls("put_post") :
        log[i].path = "update" =>
            /\ log[i].bypass_bump <=>
                  Triple(parse_event_attrs(log[i].old_raw))
                      = Triple(parse_event_attrs(log[i].raw))
            /\ DescriptionOnly(log[i].old_raw, log[i].raw) => log[i].bypass_bump
            /\ LocationChanged(log[i].old_raw, log[i].raw) => ~log[i].bypass_bump

----------------------------------------------------------------------------
(* C6  Adoption leaves the first post untouched.  While an event is bound  *)
(* to a topic found by stages 2-4, no topic's first-post text changes.     *)

C6_AdoptKeepsContent ==
    [][ /\ pc \in {"adopt", "retrofit"}
              => (\A t \in DOMAIN store : store'[t].raw = store[t].raw) ]_vars

----------------------------------------------------------------------------
(* C7  Legacy tolerance.  With a site timezone of nonzero offset, a topic  *)
(* whose stored start/end are the event's start/end shifted by that offset *)
(* (same normalized location) is matched by the time-window stage: the     *)
(* event adopts it there and nothing is created.                           *)

C7_LegacyMatchedByTimeWindow ==
    ( /\ run = 1 /\ Returned /\ idx = 1 /\ Len(store) >= 1
      /\ _site_offset_minutes(cfg.site_tz) # 0
      /\ store[1].has_post /\ store[1].raw.block
      /\ events[1].end # 0
      /\ store[1].raw.start = events[1].start + _site_offset_minutes(cfg.site_tz)
      /\ store[1].raw.end = events[1].end + _site_offset_minutes(cfg.site_tz)
      /\ norm_location(store[1].raw.loc) = norm_location(events[1].location)
      /\ ~HasBracket(store[1].raw.name) /\ ~HasBracket(events[1].summary)
      /\ LastResult.outcome \in {"adopted", "created"} )
        => /\ LastResult.outcome = "adopted"
           /\ LastResult.stage = "timewindow"
           /\ Calls("create") = {}

----------------------------------------------------------------------------
(* C8  Create.  When no stage yields a hit and a category is configured,   *)
(* exactly one topic is created: its text is the event's rendered block    *)
(* with the event's start, end and location, its category the resolved     *)
(* category, its tags the merged default and static tags, and the event is *)
(* reported as created.                                                    *)

\* the create call of an event reported as created, and what it left
CreateAsRendered ==
    LET c  == log[Len(log)]
        ev == events[idx]
    IN /\ Calls("create") = {Len(log)}
       /\ \A i \in DOMAIN log : log[i].op \in WriteOps => i = Len(log)
       /\ c.raw.block /\ c.raw.marker = build_marker(ev.uid)
       /\ c.raw.start = ev.start /\ c.raw.end = ev.end /\ c.raw.loc = ev.location
       /\ c.raw.name = ev.summary /\ c.raw.desc = ev.description
       /\ c.title = ev.summary
       /\ c.category = ResolvedCategory /\ ResolvedCategory # 0
       /\ cfg.DEFAULT_TAGS \cup cfg.static_tags \subseteq c.tags
       /\ LastResult.was_created /\ LastResult.topic_id = Len(store)
       /\ store[Len(store)].raw = c.raw /\ store[Len(store)].tags = c.tags
       /\ store[Len(store)].category = c.category

\* no stage has a hit for event ev on the site S
NoStageHit(S, ev) ==
    LET raw   == FreshRaw(ev, cfg.site_tz)
        attrs == parse_event_attrs(raw)
        cands == CandidateTriples(raw)
        good  == {i \in Ids(S) : _verify_event_hit(S[i], cands, LocNow(raw),
                                                   cfg.time_only_dedupe)}
    IN /\ \A k \in DOMAIN _uid_tag_variants(ev.uid) :
              TagHits(S, _uid_tag_variants(ev.uid)[k]) = {}
       /\ MarkerHits(S, build_marker(ev.uid)) = {}
       /\ good \cap TimeHits(S, attrs.start, attrs.end) = {}
       /\ \A ph \in {build_description_queries(raw, ev.summary)[k] :
                        k \in DOMAIN build_description_queries(raw, ev.summary)} :
              good \cap QueryHits(S, {ph}) = {}
       /\ \A i \in good : Len(S) - i >= cfg.scan_pages * PageSize

\* the claim as written: the tags of the new topic include the identity tag
C8_CreateWithIdentityTag ==
    (Returned /\ LastResult.outcome = "created")
        => /\ CreateAsRendered
           /\ short_uid_tag(events[idx].uid) \in log[Len(log)].tags

\* amended: the tags are exactly default + static, without the identity tag;
\* an event is created only when no stage had a hit, bound to an existing
\* topic only when some stage had one, skipped only without a category
C8_Create ==
    /\ (Returned /\ LastResult.outcome = "created")
          => /\ CreateAsRendered
             /\ log[Len(log)].tags = cfg.DEFAULT_TAGS \cup cfg.static_tags
             /\ short_uid_tag(events[idx].uid) \notin log[Len(log)].tags
             /\ NoStageHit(SubSeq(store, 1, Len(store) - 1), events[idx])
    /\ pc \in {"update", "adopt"} => ~NoStageHit(store, cur.ev)
    /\ (Returned /\ LastResult.outcome = "skipped") => ResolvedCategory = 0

C8_Witness ==
    /\ Returned /\ LastResult.outcome = "created"
    /\ cfg.static_tags # {}
    /\ Len(store) > 1

----------------------------------------------------------------------------
(* C9  No-op rerun through identity lookup.  When a run created a topic    *)
(* for an event whose UID occurs once in the calendar, the next run finds  *)
(* that topic in stage 1 (tag searches, then the marker search), issues no *)
(* search of the create-or-adopt pipeline, and writes neither content nor  *)
(* tags.                                                                   *)

RerunFoundAndSilent ==
    /\ LastResult.outcome = "updated"
    /\ LastResult.topic_id = previous[idx].topic_id
    /\ \A i \in DOMAIN log :
          /\ log[i].op \in {"search", "get"}
          /\ log[i].op = "search" => log[i].kind \in {"tag", "marker"}
    /\ log[Len(log) - 1] = [op |-> "search", kind |-> "marker"]

----------------------------------------------------------------------------
(* C10  Content is rewritten only when the visible text changed.  On the   *)
(* update path the first post is written exactly when the stored text and  *)
(* the fresh text differ in something other than the marker comment and    *)
(* surrounding whitespace.                                                 *)

VisibleFields == {"block", "start", "end", "name", "loc", "reminders", "tz", "desc"}

VisibleDiffers(a, b) == \E f \in VisibleFields : a[f] # b[f]

C10_WriteIffVisibleChange ==
    /\ pc = "update_tags"
          => (Calls("put_post") # {} <=> VisibleDiffers(cur.old_raw, cur.fresh_raw))
    /\ \A i \in Calls("put_post") :
          log[i].path = "update" => VisibleDiffers(log[i].old_raw, log[i].raw)

\* stored text without marker and without trailing newline, otherwise equal
\* to the fresh text: nothing is written
C10_Witness ==
    /\ pc = "update_tags"
    /\ Calls("put_post") = {}
    /\ cur.old_raw.marker # cur.fresh_raw.marker
    /\ cur.old_raw.nl # cur.fresh_raw.nl

----------------------------------------------------------------------------
(* One remote call: _request_with_backoff and the responses it is given    *)

\* range(6): requests one call may send
Attempts == 6

\* status codes of the responses
Statuses == {200, 204, 400, 404, 422, 429, 500, 503}

\* (variant) 429 is not taken as a signal to retry
Retryable_ServerErrorsOnly(status) == status >= 500

\* line 84, negated: the response asks for another attempt
Retryable(status) == status = 429 \/ status >= 500

\* requests' raise_for_status(): HTTPError for 4xx and 5xx
raise_for_status(status) == status >= 400 /\ status < 600

InitRetry ==
    /\ store = <<>>
    /\ cfg = DefaultConfig
    /\ events = <<>>
    /\ run = 1
    /\ idx = 0
    /\ pc = "idle"
    /\ cur = NoCur
    /\ log = <<>>
    /\ results = <<>>
    /\ previous = <<>>
    /\ env = [ics |-> {}, stable |-> TRUE, fault |-> NoFault]
    /\ http = [sent |-> <<>>, outcome |-> "pending"]
    /\ tokens = <<>>
    /\ peer = NotStarted
    /\ verdict = NoVerdict

\* one pass of the loop (lines 82-107); after the last pass the loop is left
\* and line 108 raises for the last response
Request ==
    /\ http.outcome = "pending"
    /\ Len(http.sent) < Attempts
    /\ \E status \in Statuses :
          http' = [sent |-> Append(http.sent, status),
                   outcome |->
                       IF ~Retryable(status) THEN
                           IF raise_for_status(status) THEN "raised" ELSE "returned"
                       ELSE IF Len(http.sent) + 1 < Attempts THEN "pending"
                       ELSE IF raise_for_status(status) THEN "raised"
                       ELSE "returned"]
    /\ UNCHANGED <<store, cfg, events, run, idx, pc, cur, log, results,
                   previous, env, tokens, peer, verdict>>

NextRetry == Request

SpecRetry == InitRetry /\ [][NextRetry]_vars

----------------------------------------------------------------------------
(* C17  Bounded retry.  One call sends at most 6 requests.  A response     *)
(* 429 or 5xx is followed by another request while fewer than 6 were sent, *)
(* and the call raises after the 6th such response; any other 4xx raises   *)
(* at once; a response below 400 is returned at once.                      *)

\* 429 or 5xx
Transient(status) == status = 429 \/ (status >= 500 /\ status < 600)

C17_BoundedRetry ==
    LET n    == Len(http.sent)
        last == http.sent[n]
    IN /\ n <= 6
       /\ \A i \in 1..(n - 1) : Transient(http.sent[i])
       /\ n = 0 => http.outcome = "pending"
       /\ n > 0 =>
             /\ last < 400 => http.outcome = "returned"
             /\ (last >= 400 /\ ~Transient(last)) => http.outcome = "raised"
             /\ (Transient(last) /\ n < 6) => http.outcome = "pending"
             /\ (Transient(last) /\ n = 6) => http.outcome = "raised"

\* five transient responses and a sixth: the call gave up
C17_Witness ==
    /\ Len(http.sent) = 6 /\ http.outcome = "raised"
    /\ http.sent[6] = 429 /\ http.sent[1] = 503

----------------------------------------------------------------------------
(* The identity tokens as functions: short_uid_tag and build_marker        *)
(* applied to UIDs as calendars emit them                                  *)

\* one UID and its respellings: other case, surrounding blanks
TokenUids == {"uid-a", "UID-A", " uid-a ", "uid-b"}

InitTokens ==
    /\ store = <<>>
    /\ cfg = DefaultConfig
    /\ events = <<>>
    /\ run = 1
    /\ idx = 0
    /\ pc = "idle"
    /\ cur = NoCur
    /\ log = <<>>
    /\ results = <<>>
    /\ previous = <<>>
    /\ env = [ics |-> {}, stable |-> TRUE, fault |-> NoFault]
    /\ http = NoCall
    /\ tokens = <<>>
    /\ peer = NotStarted
    /\ verdict = NoVerdict

\* sync_event lines 706-707: uid_tag and marker_token of one UID
ComputeTokens ==
    /\ Len(tokens) < MaxTokens
    /\ \E uid \in TokenUids :
          tokens' = Append(tokens, [uid |-> uid, tag |-> short_uid_tag(uid),
                                    marker |-> build_marker(uid)])
    /\ UNCHANGED <<store, cfg, events, run, idx, pc, cur, log, results,
                   previous, env, http,
                   peer, verdict>>

NextTokens == ComputeTokens

SpecTokens == InitTokens /\ [][NextTokens]_vars

----------------------------------------------------------------------------
(* C12  Token determinism.  The tag token and the marker token computed    *)
(* for the same UID are the same each time, and two UIDs that differ only  *)
(* in surrounding whitespace or letter case get the same two tokens.       *)

C12_TokensOfVariantsAgree ==
    \A i, j \in DOMAIN tokens :
        LowerUid(Strip(tokens[i].uid)) = LowerUid(Strip(tokens[j].uid))
            => /\ tokens[i].tag = tokens[j].tag
               /\ tokens[i].marker = tokens[j].marker

----------------------------------------------------------------------------
(* Runs against a site that starts empty, the calendar file being edited   *)
(* between the runs                                                        *)

DriftEvents ==
    {BaseEvent,
     [BaseEvent EXCEPT !.uid = "uid-b"],
     [BaseEvent EXCEPT !.start = 2],
     [BaseEvent EXCEPT !.summary = "Talk [A]"],
     [BaseEvent EXCEPT !.uid = "uid-b", !.description = "Bring laptop"]}

DriftConfigs ==
    {DefaultConfig,
     [DefaultConfig EXCEPT !.scan_pages = 0],
     [DefaultConfig EXCEPT !.time_only_dedupe = TRUE]}

InitDrift ==
    /\ store = <<>>
    /\ cfg \in DriftConfigs
    /\ events = <<>>
    /\ run = 1
    /\ idx = 0
    /\ pc = "idle"
    /\ cur = NoCur
    /\ log = <<>>
    /\ results = <<>>
    /\ previous = <<>>
    /\ env = [ics |-> DriftEvents, stable |-> FALSE, fault |-> NoFault]
    /\ http = NoCall
    /\ tokens = <<>>
    /\ peer = NotStarted
    /\ verdict = NoVerdict

SpecDrift == InitDrift /\ [][Next]_vars

----------------------------------------------------------------------------
(* C14  One record per UID.  On a site that starts empty, with runs one    *)
(* after another, no failing call and searches that reflect the site,      *)
(* every topic was created by the script and carries the marker of the     *)
(* UID it was created for, and no two topics carry the same marker:        *)
(* at most one topic is created per UID, whatever the calendars held.      *)

C14_OneTopicPerUid ==
    /\ \A t \in DOMAIN store : store[t].raw.marker # <<>>
    /\ \A t, u \in DOMAIN store :
          store[t].raw.marker = store[u].raw.marker => t = u

\* a UID whose event was created in the first run came back with other
\* times in the second run, and a second UID has a topic of its own
C14_Witness ==
    /\ run = 2 /\ Returned /\ Len(store) = 2
    /\ \E k \in DOMAIN previous :
          /\ previous[k].outcome = "created"
          /\ \E j \in DOMAIN results :
                /\ results[j].outcome = "updated"
                /\ results[j].topic_id = previous[k].topic_id
                /\ store[results[j].topic_id].raw.start = 2

----------------------------------------------------------------------------
(* C11  Per-event isolation.  Once a remote call has raised while an event *)
(* is synchronised, the loop over the VEVENTs still goes on: the run       *)
(* reaches the point where every event of the calendar has been handed to  *)
(* sync_event and has returned or failed (the final report).               *)

\* a call issued for the current event raised
CallRaised == \E i \in DOMAIN log : "failed" \in DOMAIN log[i]

\* main() is past its loop: every VEVENT has a result
FinalReport == pc = "idle" /\ idx = Len(events) /\ Len(results) = Len(events)

C11_FailureIsolated == CallRaised ~> FinalReport

\* second run: the first event failed, the second was synchronised
C11_Witness ==
    /\ run = 2 /\ FinalReport /\ Len(results) = 2
    /\ results[1].outcome = "failed"
    /\ results[2].outcome \in {"updated", "adopted", "created"}

----------------------------------------------------------------------------
(* C13  Missing destination category.  With neither --category-id nor      *)
(* DISCOURSE_CATEGORY_ID set, an event that the identity lookup did not    *)
(* find is skipped: it returns no topic id, its only remote calls are the  *)
(* tag and marker searches, and the next event is taken up.                *)

NoCategory == cfg.category_id = 0 /\ cfg.ENV_CAT_ID = 0

\* the identity lookup of the current event found a topic
IdentityHit ==
    \/ pc = "update"
    \/ \E i \in Calls("get") :
          i > 1 /\ log[i - 1].op = "search" /\ log[i - 1].kind \in {"tag", "marker"}

C13_SkippedWithoutCategory ==
    NoCategory =>
        /\ pc \in {"idle", "update", "update_tags", "create_or_adopt"}
        /\ (Returned /\ ~IdentityHit) =>
              /\ LastResult.outcome = "skipped"
              /\ LastResult.topic_id = 0
              /\ ~LastResult.was_created
              /\ \A i \in DOMAIN log :
                    log[i].op = "search" /\ log[i].kind \in {"tag", "marker"}
        /\ Calls("create") = {}

\* the first event was skipped and the second one has been synchronised
C13_Witness ==
    /\ NoCategory /\ Returned /\ idx = 2
    /\ results[1].outcome = "skipped"
    /\ Len(results) = 2

----------------------------------------------------------------------------
(* C15  Ordered, short-circuiting pipeline.  The calls of one event come   *)
(* in the order identity lookup, time-window search, description search,   *)
(* /latest.json scan, create; a stage is entered only while no earlier     *)
(* stage has a verified hit on the site; once a stage has a hit no later   *)
(* search or listing is issued; the topic is created only when all four    *)
(* stages ended without a hit.                                             *)

\* the stage a call belongs to (0: fetches and writes)
StageOf(e) ==
    IF e.op = "search" THEN
        CASE e.kind \in {"tag", "marker"} -> 1
          [] e.kind = "timewindow"        -> 2
          [] e.kind = "description"       -> 3
    ELSE IF e.op = "latest" THEN 4
    ELSE IF e.op = "create" THEN 5
    ELSE 0

StagesCalled == {StageOf(log[i]) : i \in DOMAIN log} \ {0}

\* topics of S that carry the (start, end, location) of event ev
Matching(S, ev) ==
    LET raw == FreshRaw(ev, cfg.site_tz)
    IN {i \in Ids(S) : _verify_event_hit(S[i], CandidateTriples(raw), LocNow(raw),
                                         cfg.time_only_dedupe)}

\* stage 2 has a verified hit for ev on S
TimeWindowHit(S, ev) ==
    LET attrs == parse_event_attrs(FreshRaw(ev, cfg.site_tz))
    IN Matching(S, ev) \cap TimeHits(S, attrs.start, attrs.end) # {}

\* stage 3 has a verified hit for ev on S
DescriptionHit(S, ev) ==
    LET phrases == build_description_queries(FreshRaw(ev, cfg.site_tz), ev.summary)
    IN \E k \in DOMAIN phrases : Matching(S, ev) \cap QueryHits(S, {phrases[k]}) # {}

\* stage 4 has a verified hit for ev on S
ScanHit(S, ev) ==
    \E i \in Matching(S, ev) : Len(S) - i < cfg.scan_pages * PageSize

\* the stage whose hit the current event was bound to ("" when none)
HitStage == IF pc = "idle" /\ Returned THEN LastResult.stage ELSE cur.stage

C15_OrderedPipeline ==
    /\ \A i, j \in DOMAIN log :
          (i < j /\ StageOf(log[i]) > 0 /\ StageOf(log[j]) > 0)
              => StageOf(log[i]) <= StageOf(log[j])
    /\ \A n \in StagesCalled : n > 1 => {1, 2} \subseteq StagesCalled
    /\ IdentityHit => StagesCalled \subseteq {1}
    /\ HitStage = "timewindow" => StagesCalled \subseteq {1, 2}
    /\ HitStage = "description" => StagesCalled \subseteq {1, 2, 3}
    /\ HitStage = "latest" => StagesCalled \subseteq {1, 2, 3, 4}
    /\ pc \in {"description", "latest", "create"} => ~TimeWindowHit(store, cur.ev)
    /\ pc \in {"latest", "create"} => ~DescriptionHit(store, cur.ev)
    /\ pc = "create" => ~ScanHit(store, cur.ev)
    /\ pc = "create" =>
          /\ {1, 2} \subseteq StagesCalled
          /\ 3 \in StagesCalled <=>
                build_description_queries(cur.fresh_raw, cur.ev.summary) # <<>>
          /\ 4 \in StagesCalled <=> cfg.scan_pages > 0
    /\ 5 \in StagesCalled => HitStage = ""

\* an event adopted at the description stage: the time-window search ran
\* before it, and neither the scan nor a create followed
C15_Witness ==
    /\ Returned /\ LastResult.outcome = "adopted"
    /\ LastResult.stage = "description"
    /\ StagesCalled = {1, 2, 3}

----------------------------------------------------------------------------
(* C16  Verification gate on adoption.  A topic an event is bound to by    *)
(* the time-window search, the description search or the /latest.json scan *)
(* has a first post with an event block whose normalized (start, end,      *)
(* location) is one of the event's candidates (its own triple and the      *)
(* legacy shifts of it); in time-only mode the times are those of a        *)
(* candidate and the two locations are equal, or one is empty, or one      *)
(* contains the other.                                                     *)

\* (start, end, location) written in the event block of a topic's first post
RecordTriple(topic) ==
    <<topic.raw.start, topic.raw.end, norm_location(topic.raw.loc)>>

\* a time of the event and its legacy shift
Shifts(t) == {t} \cup ({_shift_by_offset(t, cfg.site_tz)} \ {0})

\* the canonical triple of event ev and its legacy variants
EventCandidates(ev) ==
    {<<s, e, norm_location(ev.location)>> : s \in Shifts(ev.start), e \in Shifts(ev.end)}

C16_AdoptedIsVerified ==
    pc = "adopt" =>
        LET topic == store[cur.topic_id]
            trip  == RecordTriple(topic)
            loc   == norm_location(cur.ev.location)
        IN /\ topic.has_post /\ topic.raw.block
           /\ IF cfg.time_only_dedupe
              THEN /\ \E c \in EventCandidates(cur.ev) : c[1] = trip[1] /\ c[2] = trip[2]
                   /\ \/ trip[3] = <<>> \/ loc = <<>>
                      \/ trip[3] = loc \/ InLoc(trip[3], loc) \/ InLoc(loc, trip[3])
              ELSE trip \in EventCandidates(cur.ev)

----------------------------------------------------------------------------
(* C18  Failure propagation.  A remote call that raises while an event is  *)
(* synchronised ends the event as failed, and no create is issued for the  *)
(* event after it.                                                         *)

IsFailed(e) == "failed" \in DOMAIN e

\* the call raised inside search_by_timewindow_then_verify (the search or
\* the fetch of one of its hits) or inside run_query
CaughtInPipeline(i) ==
    \/ log[i].op = "search" /\ log[i].kind \in {"timewindow", "description"}
    \/ /\ log[i].op = "get" /\ i > 1
       /\ log[i - 1] = [op |-> "search", kind |-> "timewindow"]

\* the event ended at call i, as failed
EndedAt(i) ==
    /\ i = Len(log)
    /\ Returned /\ LastResult.outcome = "failed" /\ LastResult.topic_id = 0

----------------------------------------------------------------------------
(* C19  Trigger of the /latest.json scan.  As claimed: the scan is made    *)
(* only when the time-window search reported an API error.  As the code    *)
(* has it: the scan is made whenever the time-window and the description   *)
(* search ended without a verified hit and pages_to_scan is positive,      *)
(* with or without an API error.                                           *)

\* the time-window search of the current event reported api_error
ApiErrorReported ==
    \E i \in DOMAIN log :
        /\ IsFailed(log[i])
        /\ \/ log[i].op = "search" /\ log[i].kind = "timewindow"
           \/ /\ log[i].op = "get" /\ i > 1
              /\ log[i - 1] = [op |-> "search", kind |-> "timewindow"]

----------------------------------------------------------------------------
(* C20  Write order without rollback.  On the update path the first-post   *)
(* write comes before the tag write.  When the first-post write went       *)
(* through and the tag write raises, the topic keeps the new text and the  *)
(* tags it had, the event ends as failed, and no further call is made.     *)

UpdateWrites(op) == {i \in Calls(op) : log[i].path = "update"}

C20_ContentThenTagsNoRollback ==
    /\ \A i \in UpdateWrites("put_post"), j \in UpdateWrites("put_tags") : i < j
    /\ \A j \in UpdateWrites("put_tags") :
          IsFailed(log[j]) =>
              /\ j = Len(log)
              /\ Returned /\ LastResult.outcome = "failed"
              /\ store[log[j].topic_id].tags = log[j].existing_tags
              /\ \A i \in UpdateWrites("put_post") :
                    store[log[j].topic_id].raw = log[i].raw

\* the text was rewritten, then the tag write raised
C20_Witness ==
    /\ Returned /\ LastResult.outcome = "failed"
    /\ \E j \in UpdateWrites("put_tags") :
          /\ IsFailed(log[j])
          /\ log[j].tags # store[log[j].topic_id].tags
          /\ \E i \in UpdateWrites("put_post") :
                /\ ~IsFailed(log[i])
                /\ log[i].raw # log[i].old_raw
                /\ store[log[j].topic_id].raw = log[i].raw

----------------------------------------------------------------------------
(* Two invocations of main() at the same time on one site.  The variables  *)
(* events, idx, pc, cur, log, results are those of the invocation taking   *)
(* the step; `peer` holds the other one's.  Nothing in the script keeps    *)
(* the two apart (no lock, no conditional request), so the other           *)
(* invocation may take over between any two steps.                         *)

RaceEvents ==
    {BaseEvent, [BaseEvent EXCEPT !.description = "Bring laptop"],
     [BaseEvent EXCEPT !.uid = "uid-b", !.start = 2]}

\* a site with no topic for any of the events
RaceStores == {<<>>, <<PlainTopic>>}

InitRace ==
    /\ store \in RaceStores
    /\ cfg \in {DefaultConfig, [DefaultConfig EXCEPT !.scan_pages = 0]}
    /\ events = <<>>
    /\ run = 1
    /\ idx = 0
    /\ pc = "idle"
    /\ cur = NoCur
    /\ log = <<>>
    /\ results = <<>>
    /\ previous = <<>>
    /\ env = [ics |-> RaceEvents, stable |-> TRUE, fault |-> NoFault]
    /\ http = NoCall
    /\ tokens = <<>>
    /\ peer = NotStarted
    /\ verdict = NoVerdict

\* the operating system runs the other process
Switch ==
    /\ peer' = [events |-> events, idx |-> idx, pc |-> pc, cur |-> cur,
                log |-> log, results |-> results]
    /\ events' = peer.events
    /\ idx' = peer.idx
    /\ pc' = peer.pc
    /\ cur' = peer.cur
    /\ log' = peer.log
    /\ results' = peer.results
    /\ UNCHANGED <<store, cfg, run, previous, env, http, tokens, verdict>>

\* each invocation walks its calendar once
NextRace ==
    \/ Switch
    \/ SyncNewEvent
    \/ UpdateFirstPost
    \/ UpdateTags
    \/ CheckCategory
    \/ TimeWindowSearch
    \/ DescriptionSearch
    \/ ScanLatest
    \/ CreateTopic
    \/ AdoptTags
    \/ AdoptRetrofit

SpecRace == InitRace /\ [][NextRace]_vars

----------------------------------------------------------------------------
(* C21  Cross-invocation race.  Two invocations at work on the same site   *)
(* and the same UID, the site holding no topic for it: both can end every  *)
(* match stage without a hit before either creates, and then both issue    *)
(* the create, which leaves two topics for the UID.  Every create that was *)
(* issued left a topic of its own: the topics carrying the marker of a UID *)
(* are as many as the creates the two invocations issued for it.           *)

\* events of the list evs for which sync_event returned was_created
CreatedFor(evs, res, uid) ==
    {k \in DOMAIN res : res[k].was_created /\ evs[k].uid = uid}

TopicsOf(uid) ==
    {t \in DOMAIN store : store[t].has_post /\ store[t].raw.marker = build_marker(uid)}

C21_EveryCreateLeavesATopic ==
    \A uid \in Uids :
        Cardinality(TopicsOf(uid)) =
            Cardinality(CreatedFor(events, results, uid))
            + Cardinality(CreatedFor(peer.events, peer.results, uid))

\* both invocations created a topic for the same UID; neither saw a
\* candidate at any stage (no topic was fetched), so each had ended its
\* last match stage before the other's create
C21_Witness ==
    /\ pc = "idle" /\ peer.pc = "idle"
    /\ Len(results) = 1 /\ Len(peer.results) = 1
    /\ results[1].was_created /\ peer.results[1].was_created
    /\ events[1].uid = peer.events[1].uid
    /\ Cardinality(TopicsOf(events[1].uid)) = 2
    /\ StagesCalled = {1, 2, 3, 4, 5}
    /\ {StageOf(peer.log[i]) : i \in DOMAIN peer.log} = {1, 2, 3, 4, 5}
    /\ Calls("get") = {}
    /\ \A i \in DOMAIN peer.log : peer.log[i].op # "get"

----------------------------------------------------------------------------
(* The acceptance test of the three stages as functions: one fetched topic *)
(* and the candidates of one event are put to _verify_event_hit, to the    *)
(* loop body of verify_candidate_ids_by_event and to the inline test of    *)
(* the /latest.json scan                                                   *)

\* first posts a fetch can return: what the sites of the model hold, and
\* the same event announced for other rooms or for no room
FetchedTopics ==
    {S[1] : S \in InitialStores \ {<<>>}}
    \cup {[MovedTalk EXCEPT !.raw.loc = l, !.raw.name = "Lecture"] :
            l \in {<<>>, <<"Room A", "Room B">>, <<"room a">>}}

InitVerify ==
    /\ store = <<>>
    /\ cfg \in {DefaultConfig, [DefaultConfig EXCEPT !.site_tz = "UTC"]}
    /\ events = <<>>
    /\ run = 1
    /\ idx = 0
    /\ pc = "idle"
    /\ cur = NoCur
    /\ log = <<>>
    /\ results = <<>>
    /\ previous = <<>>
    /\ env = [ics |-> Events, stable |-> TRUE, fault |-> NoFault]
    /\ http = NoCall
    /\ tokens = <<>>
    /\ peer = NotStarted
    /\ verdict = NoVerdict

\* create_or_adopt_topic lines 585-603 for one event, then one fetched
\* topic put to each of the three tests with the candidate_triples, loc_now
\* and time_only that create_or_adopt_topic hands over
VerifyTopic ==
    /\ ~verdict.asked
    /\ \E ev \in env.ics, topic \in FetchedTopics, time_only \in BOOLEAN :
          LET raw == FreshRaw(ev, cfg.site_tz)
              candidate_triples == CandidateTriples(raw)
              loc_now == LocNow(raw)
          IN verdict' =
                [asked |-> TRUE, topic |-> topic, ev |-> ev, time_only |-> time_only,
                 timewindow |-> _verify_event_hit(topic, candidate_triples,
                                                  loc_now, time_only),
                 description |-> verify_candidate(topic, candidate_triples,
                                                  loc_now, time_only),
                 scan |-> scan_accept(topic, candidate_triples, loc_now, time_only)]
    /\ UNCHANGED <<store, cfg, events, run, idx, pc, cur, log, results,
                   previous, env, http, tokens, peer>>

NextVerify == VerifyTopic

SpecVerify == InitVerify /\ [][NextVerify]_vars

----------------------------------------------------------------------------
(* C22  Uniform acceptance predicate.  For every fetched first post, every *)
(* event (whose candidate triples and location create_or_adopt_topic       *)
(* computes) and either value of the time-only flag, the time-window       *)
(* stage, the description stage and the /latest.json scan give the same    *)
(* accept / reject answer.                                                 *)

C22_SameVerdict ==
    verdict.asked =>
        /\ verdict.timewindow = verdict.description
        /\ verdict.description = verdict.scan

\* time-only mode, the topic names one room of the two the event lists:
\* accepted by all three, and rejected by all three without the flag
C22_Witness ==
    /\ verdict.asked /\ verdict.time_only
    /\ verdict.timewindow /\ verdict.description /\ verdict.scan
    /\ norm_location(verdict.topic.raw.loc) # norm_location(verdict.ev.location)
    /\ verdict.topic.raw.loc # <<>> /\ verdict.ev.location # <<>>

----------------------------------------------------------------------------
(* Runs with other values of --scan-pages, on sites of up to two           *)
(* /latest.json pages                                                      *)

\* an old topic of BaseEvent that only the /latest.json scan can reach: its
\* times are in the legacy encoding and its texts were rewritten by hand
ScanOnlyTopic == OldTopic(<<>>, TRUE, 1, {}, TRUE)

ScanStores ==
    {<<>>, <<PlainTopic>>, <<ScanOnlyTopic>>, <<ScanOnlyTopic, PlainTopic>>,
     <<ScanOnlyTopic, PlainTopic, PlainTopic>>,
     <<PlainTopic, PlainTopic, PlainTopic>>}

ScanConfigs ==
    {[DefaultConfig EXCEPT !.scan_pages = n] : n \in {0 - 1, 0, 1, 2, 3}}

InitScan ==
    /\ store \in ScanStores
    /\ cfg \in ScanConfigs
    /\ events = <<>>
    /\ run = 1
    /\ idx = 0
    /\ pc = "idle"
    /\ cur = NoCur
    /\ log = <<>>
    /\ results = <<>>
    /\ previous = <<>>
    /\ env = [ics |-> {BaseEvent, [BaseEvent EXCEPT !.uid = "uid-b", !.start = 2]},
              stable |-> TRUE, fault |-> NoFault]
    /\ http = NoCall
    /\ tokens = <<>>
    /\ peer = NotStarted
    /\ verdict = NoVerdict

SpecScan == InitScan /\ [][Next]_vars

----------------------------------------------------------------------------
(* C23  Bound of the /latest.json scan.  With --scan-pages n, one event    *)
(* issues at most n listing calls, for the pages 0, 1, 2, ... in order,    *)
(* and none when n is 0 or negative.  The scan stops at the first page     *)
(* that holds a verified match (which is then fetched and adopted) or at   *)
(* the first empty page; it ends without a match only when no page it      *)
(* listed holds one.                                                       *)

\* the listing calls of the current event, and the last of them
Listings == Calls("latest")

LastListing == CHOOSE i \in Listings : \A j \in Listings : j <= i

C23_ScanBounded ==
    /\ Cardinality(Listings) <= (IF cfg.scan_pages > 0 THEN cfg.scan_pages ELSE 0)
    /\ cfg.scan_pages <= 0 => Listings = {}
    /\ \A i \in Listings :
          log[i].page = Cardinality({j \in Listings : j < i})
    /\ (pc \in {"create", "adopt"} /\ Listings # {}) =>
          /\ \A i \in Listings \ {LastListing} :
                /\ LatestPage(store, log[i].page) # {}
                /\ LatestPage(store, log[i].page) \cap Matching(store, cur.ev) = {}
          /\ pc = "create" =>
                /\ LatestPage(store, log[LastListing].page) \cap Matching(store, cur.ev) = {}
                /\ \/ Cardinality(Listings) = cfg.scan_pages
                   \/ LatestPage(store, log[LastListing].page) = {}
          /\ pc = "adopt" =>
                /\ cur.stage = "latest"
                /\ cur.topic_id \in LatestPage(store, log[LastListing].page)
                /\ cur.topic_id \in Matching(store, cur.ev)
                /\ LastListing = Len(log) - 1
                /\ log[Len(log)] = GetTopic(cur.topic_id)
    /\ (pc \in {"create", "adopt"} /\ Listings = {}) =>
          (cfg.scan_pages <= 0 \/ cur.stage \in {"timewindow", "description"})

\* three pages allowed: the match is on the second, the third is not asked
C23_Witness ==
    /\ pc = "adopt" /\ cur.stage = "latest"
    /\ cfg.scan_pages = 3
    /\ Cardinality(Listings) = 2

----------------------------------------------------------------------------
(* C24  Exact tag merge without needless writes.  On the update path and   *)
(* on the adoption path, PUT /t/{id}.json with tags[] is sent if and only  *)
(* if the topic's tags united with the default tags and the static tags    *)
(* differ from the topic's tags; the tags sent are exactly that union, and *)
(* they are what the topic carries afterwards.  When the union equals the  *)
(* topic's tags no tag write is sent.                                      *)

\* the tag writes the step adds to the log
NewTagWrites == {i \in DOMAIN log' \ DOMAIN log : log'[i].op = "put_tags"}

TagMergeStep ==
    pc \in {"update_tags", "adopt"} =>
        LET t        == cur.topic_id
            existing == store[t].tags
            union    == existing \cup cfg.DEFAULT_TAGS \cup cfg.static_tags
        IN /\ NewTagWrites # {} <=> union # existing
           /\ Cardinality(NewTagWrites) <= 1
           /\ \A i \in NewTagWrites :
                 /\ log'[i].tags = union
                 /\ log'[i].topic_id = t
           /\ store'[t].tags = union
           /\ \A u \in DOMAIN store : u # t => store'[u].tags = store[u].tags

C24_ExactTagMerge == [][TagMergeStep]_vars

\* an identity match on a topic a moderator had tagged: the write carried
\* that tag, the default tag and the static tag
C24_Witness ==
    /\ Returned /\ LastResult.outcome = "updated"
    /\ cfg.static_tags # {}
    /\ \E j \in Calls("put_tags") :
          /\ log[j].path = "update"
          /\ PlainTag("staff-pick") \in log[j].existing_tags
          /\ log[j].tags = log[j].existing_tags \cup cfg.DEFAULT_TAGS \cup cfg.static_tags
          /\ log[j].tags # log[j].existing_tags
          /\ store[log[j].topic_id].tags = log[j].tags

----------------------------------------------------------------------------
(* C25  Identity tag on update.  As claimed: after an event has completed  *)
(* the update path, the topic's tags contain the tag derived from the      *)
(* event's UID.  As the code has it (desired_tags.add(uid_tag) is          *)
(* commented out): the update path adds the default and the static tags    *)
(* only; the topic carries the identity tag afterwards exactly when it     *)
(* carried it before.                                                      *)

UpdateCompletes == pc = "update_tags" /\ pc' = "idle"

\* amended
UidTagUntouched ==
    UpdateCompletes =>
        LET t       == cur.topic_id
            uid_tag == short_uid_tag(cur.ev.uid)
        IN /\ uid_tag \in store'[t].tags <=> uid_tag \in store[t].tags
           /\ cfg.DEFAULT_TAGS \cup cfg.static_tags \subseteq store'[t].tags
           /\ results'[Len(results')].outcome = "updated"

----------------------------------------------------------------------------
(* The counters of main() and its last log line                            *)

\* main() lines 838-843: count is raised once sync_event has returned (an
\* exception skips the line)
count == Cardinality({k \in DOMAIN results : results[k].outcome # "failed"})

\* main() lines 839-845: created is raised when was_created came back true
created == Cardinality({k \in DOMAIN results : results[k].was_created})

\* main() line 849: the third number of "Processed %d events (%d created,
\* %d updated)"
updated == count - created

----------------------------------------------------------------------------
(* C26  Final report counts.  At the end of a run the reported total is    *)
(* the number of events that did not fail, the reported created count is   *)
(* the number of events a topic was created for, and the reported updated  *)
(* count is the number of events bound to an existing topic by update or   *)
(* adoption; an event skipped for want of a category, or failed, is        *)
(* counted neither as created nor as updated.                              *)

\* events of the run that ended with one of the outcomes
EndedAs(outcomes) == {k \in DOMAIN results : results[k].outcome \in outcomes}

C26_ReportCounts ==
    (FinalReport /\ idx > 0) =>
        /\ count = Cardinality(EndedAs({"created", "updated", "adopted", "skipped"}))
        /\ created = Cardinality(EndedAs({"created"}))
        /\ updated = Cardinality(EndedAs({"updated", "adopted"}))

----------------------------------------------------------------------------
(* C27  Content writes target an existing post.  Every PUT                 *)
(* /posts/{id}.json, on the update path as on the adoption path, carries   *)
(* the id of the first post of the matched topic; when the matched topic   *)
(* has no post, no content write is issued.                                *)

C27_ContentWriteHasPost ==
    \A i \in Calls("put_post") :
        /\ log[i].post_id # 0
        /\ log[i].post_id \in DOMAIN store
        /\ store[log[i].post_id].has_post

----------------------------------------------------------------------------
(* C28  Termination.  With a finite calendar, every request answered and   *)
(* every search or listing page finite, the synchronisation of each event  *)
(* ends as created, updated, adopted, skipped or failed after a bounded    *)
(* number of remote calls, and each run reaches its final report.  The     *)
(* calls of one event: at most 4 identity searches, the time-window search *)
(* and the fetch of its hit, 5 description queries and the fetch of their  *)
(* hit, the listing calls and the fetch of their hit, then the create or   *)
(* the three calls of the adoption.  A run is at its final report when     *)
(* every event of its calendar has returned or failed; a run that is not   *)
(* there (an event is under way, or events are left) gets there.           *)

MostCalls == 4 + 2 + 6 + (PagesScanned + 1) + 3

Outcomes == {"created", "updated", "adopted", "skipped", "failed"}

C28_Terminates ==
    /\ [](Len(log) <= MostCalls)
    /\ [](\A k \in DOMAIN results : results[k].outcome \in Outcomes)
    /\ ~FinalReport ~> FinalReport

\* the last run is over: one event of it failed at the create, the other
\* was synchronised after the searches, the listing and the fetches
C28_Witness ==
    /\ run = MaxRuns /\ FinalReport /\ Len(results) = 2
    /\ results[1].outcome = "failed" /\ results[1].stage = ""
    /\ results[2].outcome = "adopted"
    /\ Len(log) >= 8

====
